---- MODULE Spec2Model ----
(***************************************************************************)
(* Verification model of BookPublisherAI.                                  *)
(*                                                                         *)
(*   storage/chroma_manager.py  ChromaContentManager  (SpecStore)          *)
(*   interface/human_loop.py    HumanLoopInterface    (SpecLedger)         *)
(*   main.py                    BookPublicationWorkflow (SpecPipeline)     *)
(*                                                                         *)
(* Each component has its own next-state relation; the variables of the    *)
(* other components stay at their initial values under it.                 *)
(***************************************************************************)
EXTENDS Integers, Sequences, FiniteSets, TLC

(***************************************************************************)
(* Bounds and input domains                                                *)
(***************************************************************************)
\* number of store_content calls explored (also bounds the uuid counter)
MaxStores == 2
Chapters == {"ch1", "ch2"}
Contents == {"a", "b"}
Versions == {1, 2}
Workers == {"w1", "w2"}

\* number of submit_for_review calls explored
MaxRequests == 2
\* number of feedback records explored
MaxFeedback == 2
\* number of clock ticks explored
MaxClock == 1

\* number of source URLs of a project
MaxItems == 2

ReviewTypes == {"writer", "reviewer"}
Priorities == {1, 2}
Reviewers == {"alice"}
Actions == {"approve", "revise", "reject"}
Ratings == {7}

\* Python's None, per type: a version argument of None (0 is treated alike by
\* the `if version:` tests), a metadata argument of None (an empty dict is
\* treated alike by `if metadata:`), and no document id
NoVersion == 0
NoMetadata == [k \in {} |-> TRUE]
NoDocId == <<>>

(***************************************************************************)
(* State                                                                   *)
(***************************************************************************)
VARIABLES
    \* ChromaContentManager -------------------------------------------------
    content_collection,   \* "book_content": sequence of [id, document, metadata]
    versions_collection,  \* "content_versions": sequence of [id, data]
    next_uuid,            \* number of uuid4() values drawn so far
    wpc,                  \* per worker: position inside store_content
    wcall,                \* per worker: locals of the store_content call in flight
    store_result,         \* per worker: value returned by its last store_content
    store_log,            \* per worker: what its last store_content printed
    delete_result,        \* value returned by the last delete_content
    search_call,          \* arguments of the last search_similar_content
    search_result,        \* outcome of the last search_similar_content
    \* HumanLoopInterface ---------------------------------------------------
    pending_reviews,      \* list of ReviewRequest
    completed_reviews,    \* list of HumanFeedback
    pending_file,         \* data_dir/pending_reviews.json
    completed_file,       \* data_dir/completed_reviews.json
    now,                  \* datetime.now(), in clock ticks
    peer_pending_reviews,   \* pending_reviews of a second HumanLoopInterface
    peer_completed_reviews, \* completed_reviews of the second HumanLoopInterface
    wait_pc,              \* position of the wait_for_feedback call
    wait_call,            \* arguments of the wait_for_feedback call
    wait_elapsed,         \* (datetime.now() - start_time).seconds of the call
    wait_result,          \* value returned by wait_for_feedback
    prompt_pc,            \* prompt a collect_human_feedback call is waiting at
    prompt_call,          \* locals of that collect_human_feedback call
    prompt_printed,       \* what collect_human_feedback printed last
    \* AIWriterAgent --------------------------------------------------------
    writer_pc,            \* position of the transform_content call
    writer_task,          \* task_id of the transform_content call
    writer_attempt,       \* attempt of the for loop of _generate_with_retry
    writer_outcomes,      \* how the generation attempts of the call ended
    writer_result,        \* outcome of the last transform_content
    writing_history,      \* self.writing_history
    \* BookPublicationWorkflow ----------------------------------------------
    require_approval,     \* config['human_review']['require_approval']
    stage,                \* position of run_full_workflow
    project_error,        \* 'error' of the project status, "none" while unset
    cursor,               \* position of the stage's for loop in its input list
    scraped_content,      \* result list of _run_scraping_stage
    written_content,      \* result list of _run_writing_stage
    reviewed_content,     \* result list of _run_review_stage
    approved_items,       \* list returned by start_review_session
    review_decision,      \* per item: action of the human review, "none" before
    human_approved_content, \* result list of _run_human_review_stage
    final_content,        \* result list of _run_editing_stage
    publication_results,  \* list built by _run_publication_stage
    version_store,        \* versions recorded by VersionManager.create_version
    published_content     \* records stored by ContentStorage.store_content

storeVars == <<content_collection, versions_collection, next_uuid, wpc, wcall,
               store_result, store_log, delete_result>>

searchVars == <<search_call, search_result>>

ledgerVars == <<pending_reviews, completed_reviews, pending_file, completed_file, now>>

peerVars == <<peer_pending_reviews, peer_completed_reviews>>

waitVars == <<wait_pc, wait_call, wait_elapsed, wait_result>>

promptVars == <<prompt_pc, prompt_call, prompt_printed>>

writerVars == <<writer_pc, writer_task, writer_attempt, writer_outcomes,
                writer_result, writing_history>>

pipelineVars == <<require_approval, stage, project_error, cursor, scraped_content, written_content,
                  reviewed_content, approved_items, review_decision,
                  human_approved_content, final_content, publication_results,
                  version_store, published_content>>

vars == <<storeVars, searchVars, ledgerVars, peerVars, waitVars, promptVars,
          writerVars, pipelineVars>>

(***************************************************************************)
(* storage/chroma_manager.py                                               *)
(***************************************************************************)

\* hashlib.sha256(content.encode()).hexdigest(): a digest token per content;
\* distinct contents of the explored domain have distinct digests.
_generate_content_hash(content) == <<"sha256", content>>

\* The metadata dictionaries a caller passes to store_content: None, and
\* dictionaries that use a key store_content also sets.
CallerMetadata ==
    {NoMetadata, [version |-> 2], [chapter_id |-> "ch2"]}

\* dict.update: keys of other override keys of base
DictUpdate(base, other) ==
    [k \in (DOMAIN base) \cup (DOMAIN other) |->
        IF k \in DOMAIN other THEN other[k] ELSE base[k]]

\* a document id without the uuid part
MakeDocIdWithoutUuid(chapter_id, version, uuid) == <<chapter_id, version, 0>>

\* f"{chapter_id}_v{version}_{uuid.uuid4().hex[:8]}"; the truncated uuid is
\* taken to be fresh at every call.
MakeDocId(chapter_id, version, uuid) == <<chapter_id, version, uuid>>

\* store_metadata of store_content (lines 51-61)
StoreMetadata(content, chapter_id, version, metadata) ==
    LET base == [chapter_id |-> chapter_id,
                 version |-> version,
                 content_hash |-> _generate_content_hash(content)]
    IN IF DOMAIN metadata # {} THEN DictUpdate(base, metadata) ELSE base

\* A where clause with two keys, {"chapter_id": ..., "version": ...}, is not
\* treated alike by every chromadb the module can be installed with: a
\* backend either reads it as the conjunction of its keys, or it validates
\* that a where clause has exactly one operator and raises ValueError.  The
\* treatment is an input of every call that passes a where clause.
WhereBackends == {"implicit_and", "one_operator"}

\* the where clause passes the validation of the backend
WhereAccepted(where, where_backend) ==
    \/ Cardinality(DOMAIN where) = 1
    \/ where_backend = "implicit_and"

\* Chroma's metadata filter: every key of the where clause is present and equal
WhereMatches(md, where) ==
    \A k \in DOMAIN where : k \in DOMAIN md /\ md[k] = where[k]

\* collection.get(where=...): the matching entries, in insertion order
CollectionGet(coll, where) ==
    SelectSeq(coll, LAMBDA d : WhereMatches(d.metadata, where))

\* collection.add(documents, metadatas, ids): the entry is appended; under an
\* id the collection already holds nothing is added and the entry stored
\* under the id is kept
CollectionAdd(coll, entry) ==
    IF \E i \in 1..Len(coll) : coll[i].id = entry.id
    THEN coll
    ELSE Append(coll, entry)

\* sorted(..., key=version) without reverse=True
RECURSIVE SortedByVersionAscending(_)
SortedByVersionAscending(s) ==
    IF s = <<>> THEN <<>>
    ELSE LET rest == SortedByVersionAscending(Tail(s))
             x == Head(s)
             before == SelectSeq(rest, LAMBDA y : y.metadata.version < x.metadata.version)
             after == SelectSeq(rest, LAMBDA y : y.metadata.version >= x.metadata.version)
         IN before \o <<x>> \o after

\* sorted(zip(documents, metadatas), key=lambda x: x[1].get('version', 0),
\*        reverse=True): stable, entries of equal version keep their order
RECURSIVE SortedByVersionReverse(_)
SortedByVersionReverse(s) ==
    IF s = <<>> THEN <<>>
    ELSE LET rest == SortedByVersionReverse(Tail(s))
             x == Head(s)
             before == SelectSeq(rest, LAMBDA y : y.metadata.version > x.metadata.version)
             after == SelectSeq(rest, LAMBDA y : y.metadata.version <= x.metadata.version)
         IN before \o <<x>> \o after

\* retrieve_content(chapter_id, version=None); an exception of the get is
\* caught and returned as the error (lines 145-146)
retrieve_content(chapter_id, version, where_backend) ==
    LET where == IF version # NoVersion
                 THEN [chapter_id |-> chapter_id, version |-> version]
                 ELSE [chapter_id |-> chapter_id]
        got == CollectionGet(content_collection, where)
        results == IF version # NoVersion \/ got = <<>>
                   THEN got
                   ELSE <<SortedByVersionReverse(got)[1]>>
    IN IF ~WhereAccepted(where, where_backend)
       THEN [found |-> FALSE, error |-> "Expected where to have exactly one operator"]
       ELSE IF results # <<>>
       THEN [found |-> TRUE, content |-> results[1].document,
             metadata |-> results[1].metadata]
       ELSE [found |-> FALSE, error |-> "Content not found"]

\* an entry of get_chapter_versions (lines 195-200); the contents of the
\* model are shorter than the 200 characters of the preview
VersionEntry(doc, metadata) ==
    [version |-> metadata.version, content_preview |-> doc]

\* versions.sort(key=lambda x: x.get('version', 0)): stable, ascending
RECURSIVE SortVersions(_)
SortVersions(s) ==
    IF s = <<>> THEN <<>>
    ELSE LET rest == SortVersions(Tail(s))
             x == Head(s)
             before == SelectSeq(rest, LAMBDA y : y.version < x.version)
             after == SelectSeq(rest, LAMBDA y : y.version >= x.version)
         IN before \o <<x>> \o after

\* get_chapter_versions without the sort of line 203
get_chapter_versions_unsorted(chapter_id) ==
    LET results == CollectionGet(content_collection, [chapter_id |-> chapter_id])
    IN [i \in 1..Len(results) |->
            VersionEntry(results[i].document, results[i].metadata)]

\* get_chapter_versions(chapter_id)
get_chapter_versions(chapter_id) ==
    LET results == CollectionGet(content_collection, [chapter_id |-> chapter_id])
        versions == [i \in 1..Len(results) |->
                        VersionEntry(results[i].document, results[i].metadata)]
    IN SortVersions(versions)

\* The distances a query reports.  The collections are created without a
\* distance function, so the backend uses its default, the squared L2
\* distance; between embeddings of unit length it lies between 0 and 4.
\* Two whole distances are explored.
Distances == {0, 2}

\* query texts
Queries == {"", "q"}

\* values of n_results: none, fewer than, and more than the index can hold
Limits == {0, 1, 5}

\* A query for more results than the collection holds is not treated alike
\* by every chromadb: a backend either returns the entries there are, or it
\* raises.
QueryBackends == {"caps", "raises"}

Min(a, b) == IF a <= b THEN a ELSE b

\* the entries of the collection, nearest first; distance maps a document
\* to the distance between its embedding and that of the query text
RECURSIVE SortByDistance(_, _)
SortByDistance(coll, distance) ==
    IF coll = <<>> THEN <<>>
    ELSE LET nearest == CHOOSE i \in 1..Len(coll) :
                 \A j \in 1..Len(coll) :
                     \/ distance[coll[i].document] < distance[coll[j].document]
                     \/ /\ distance[coll[i].document] = distance[coll[j].document]
                        /\ i <= j
             rest == [k \in 1..(Len(coll) - 1) |->
                         IF k < nearest THEN coll[k] ELSE coll[k + 1]]
         IN <<coll[nearest]>> \o SortByDistance(rest, distance)

\* collection.query(query_texts=[query], n_results=n_results, include=...):
\* the n_results nearest entries with their distances, or an exception
\* (n_results below 1 is refused by every backend)
CollectionQuery(coll, n_results, query_backend, distance) ==
    IF n_results <= 0 \/ (n_results > Len(coll) /\ query_backend = "raises")
    THEN [raised |-> TRUE, rows |-> <<>>]
    ELSE LET sorted == SortByDistance(coll, distance)
         IN [raised |-> FALSE,
             rows |-> [i \in 1..Min(n_results, Len(coll)) |->
                          [document |-> sorted[i].document,
                           metadata |-> sorted[i].metadata,
                           distance |-> distance[sorted[i].document]]]]

\* search_similar_content without its except branch
search_similar_content_uncaught(n_results, query_backend, distance) ==
    [raised |-> TRUE, value |-> <<>>, printed |-> "none"]

\* search_similar_content, lines 159-183; the query text acts through the
\* distances
search_similar_content(n_results, query_backend, distance) ==
    LET results == CollectionQuery(content_collection, n_results,
                                   query_backend, distance)
    IN IF results.raised
       THEN [raised |-> FALSE, value |-> <<>>, printed |-> "Search error"]
       ELSE [raised |-> FALSE,
             value |-> [i \in 1..Len(results.rows) |->
                          [content |-> results.rows[i].document,
                           metadata |-> results.rows[i].metadata,
                           similarity_score |-> 1 - results.rows[i].distance,
                           rank |-> i]],
             printed |-> "none"]

\* no search_similar_content was called
NoSearch == [called |-> FALSE, query |-> "", n_results |-> 0, count |-> 0]

\* a call of search_similar_content; count is the size of the index at the
\* call
SearchSimilarContent(query, n_results, query_backend, distance) ==
    /\ search_call' = [called |-> TRUE, query |-> query, n_results |-> n_results,
                       count |-> Len(content_collection)]
    /\ search_result' = search_similar_content(n_results, query_backend, distance)
    /\ UNCHANGED storeVars
    /\ UNCHANGED <<ledgerVars, peerVars, waitVars, promptVars, writerVars, pipelineVars>>

InitSearch ==
    /\ search_call = NoSearch
    /\ search_result = [raised |-> FALSE, value |-> <<>>, printed |-> "none"]

\* store_content, lines 47-68: build the id and the metadata, add the document
StoreContentAdd(w, content, chapter_id, version, metadata) ==
    /\ wpc[w] = "idle"
    /\ next_uuid < MaxStores
    /\ LET doc_id == MakeDocId(chapter_id, version, next_uuid + 1)
           content_hash == _generate_content_hash(content)
       IN /\ content_collection' = CollectionAdd(content_collection,
                 [id |-> doc_id, document |-> content,
                  metadata |-> StoreMetadata(content, chapter_id, version, metadata)])
          /\ wcall' = [wcall EXCEPT ![w] = [chapter_id |-> chapter_id, version |-> version,
                                            doc_id |-> doc_id, content_hash |-> content_hash]]
    /\ next_uuid' = next_uuid + 1
    /\ wpc' = [wpc EXCEPT ![w] = "tracking"]
    /\ UNCHANGED <<versions_collection, store_result, store_log, delete_result>>
    /\ UNCHANGED <<searchVars, ledgerVars, peerVars, waitVars, promptVars, writerVars, pipelineVars>>

\* locals of a worker that is not inside store_content
NoCall == [chapter_id |-> "", version |-> NoVersion, doc_id |-> NoDocId,
           content_hash |-> <<"sha256", "">>]

\* f"version_{chapter_id}_{version}"
MakeVersionId(chapter_id, version) == <<"version", chapter_id, version>>

\* store_content, lines 70-73 with _update_version_tracking: add the tracking
\* record and return the document id.  An add under an id the collection
\* already holds does not replace the record; depending on the backend it
\* raises (caught and printed at line 99) or is dropped silently.
StoreContentTrack(w) ==
    /\ wpc[w] = "tracking"
    /\ LET c == wcall[w]
           version_id == MakeVersionId(c.chapter_id, c.version)
           version_data == [chapter_id |-> c.chapter_id, version |-> c.version,
                            doc_id |-> c.doc_id, content_hash |-> c.content_hash]
           taken == \E i \in 1..Len(versions_collection) :
                        versions_collection[i].id = version_id
       IN /\ IF taken
             THEN /\ UNCHANGED versions_collection
                  /\ \E printed \in {"Version tracking update failed", "none"} :
                        store_log' = [store_log EXCEPT ![w] = printed]
             ELSE /\ versions_collection' = Append(versions_collection,
                        [id |-> version_id, data |-> version_data])
                  /\ store_log' = [store_log EXCEPT ![w] = "none"]
          /\ store_result' = [store_result EXCEPT ![w] = c.doc_id]
    /\ wpc' = [wpc EXCEPT ![w] = "idle"]
    /\ wcall' = [wcall EXCEPT ![w] = NoCall]
    /\ UNCHANGED <<content_collection, next_uuid, delete_result>>
    /\ UNCHANGED <<searchVars, ledgerVars, peerVars, waitVars, promptVars, writerVars, pipelineVars>>

\* delete_content(chapter_id, version=None); an exception of the get is
\* caught, printed as "Delete error" and False is returned (lines 232-234)
DeleteContent(chapter_id, version, where_backend) ==
    LET where_clause == IF version # NoVersion
                        THEN [chapter_id |-> chapter_id, version |-> version]
                        ELSE [chapter_id |-> chapter_id]
        results == CollectionGet(content_collection, where_clause)
        ids == {results[i].id : i \in 1..Len(results)}
    IN /\ IF WhereAccepted(where_clause, where_backend) /\ ids # {}
          THEN /\ content_collection' =
                      SelectSeq(content_collection, LAMBDA d : d.id \notin ids)
               /\ delete_result' = TRUE
          ELSE /\ UNCHANGED content_collection
               /\ delete_result' = FALSE
       /\ UNCHANGED <<versions_collection, next_uuid, wpc, wcall, store_result, store_log>>
       /\ UNCHANGED <<searchVars, ledgerVars, peerVars, waitVars, promptVars, writerVars, pipelineVars>>

InitStore ==
    /\ content_collection = <<>>
    /\ versions_collection = <<>>
    /\ next_uuid = 0
    /\ wpc = [w \in Workers |-> "idle"]
    /\ wcall = [w \in Workers |-> NoCall]
    /\ store_result = [w \in Workers |-> NoDocId]
    /\ store_log = [w \in Workers |-> "none"]
    /\ delete_result = FALSE

NextStore ==
    \/ \E w \in Workers, content \in Contents, chapter_id \in Chapters,
          version \in Versions, metadata \in CallerMetadata :
          StoreContentAdd(w, content, chapter_id, version, metadata)
    \/ \E w \in Workers : StoreContentTrack(w)
    \/ \E chapter_id \in Chapters, version \in Versions,
          where_backend \in WhereBackends :
          DeleteContent(chapter_id, version, where_backend)
    \* a where clause of one key passes on every backend
    \/ \E chapter_id \in Chapters :
          DeleteContent(chapter_id, NoVersion, "one_operator")

\* Searches of an index that one caller fills, without caller metadata, and
\* empties
NextSearch ==
    \/ \E content \in Contents, chapter_id \in Chapters :
          StoreContentAdd("w1", content, chapter_id, 1, NoMetadata)
    \/ StoreContentTrack("w1")
    \/ \E chapter_id \in Chapters :
          DeleteContent(chapter_id, NoVersion, "one_operator")
    \/ \E query \in Queries, n_results \in Limits,
          query_backend \in QueryBackends, distance \in [Contents -> Distances] :
          SearchSimilarContent(query, n_results, query_backend, distance)

(***************************************************************************)
(* interface/human_loop.py                                                 *)
(***************************************************************************)

\* clock ticks per second: created_at and timestamp carry the full clock
\* reading (isoformat), the request id only the second (strftime %H%M%S)
TicksPerSecond == 2

StrftimeSecond(t) == t \div TicksPerSecond

\* f"{review_type}_{datetime.now().strftime('%Y%m%d_%H%M%S')}_{len(self.pending_reviews)}"
MakeRequestId(review_type, t, n) == <<review_type, StrftimeSecond(t), n>>

\* review_type=None of get_pending_reviews ('' is treated alike)
NoReviewType == ""

\* asdict(x) written by json, x a HumanFeedback or a ReviewRequest: an object
\* whose members are JSON numbers for the int fields (rating, priority) and
\* JSON strings for the str fields
JsonObject(x) ==
    IF "reviewer_id" \in DOMAIN x
    THEN [request_id |-> <<"string", x.request_id>>,
          reviewer_id |-> <<"string", x.reviewer_id>>,
          action |-> <<"string", x.action>>,
          rating |-> <<"number", x.rating>>,
          timestamp |-> <<"string", x.timestamp>>]
    ELSE [request_id |-> <<"string", x.request_id>>,
          review_type |-> <<"string", x.review_type>>,
          priority |-> <<"number", x.priority>>,
          created_at |-> <<"string", x.created_at>>,
          status |-> <<"string", x.status>>]

\* json.dump([asdict(x) for x in ...]): the array of the records' objects
JsonDump(list) == [i \in 1..Len(list) |-> JsonObject(list[i])]

\* ReviewRequest(**item), HumanFeedback(**item): a JSON number is read as an
\* int, a JSON string as a str
FromJsonObject(item) == [k \in DOMAIN item |-> item[k][2]]

\* json.load(f) with the list comprehension of lines 58 and 63
JsonLoad(file) == [i \in 1..Len(file) |-> FromJsonObject(file[i])]

\* a file that open(..., 'w') emptied and json.dump left before the end of
\* its text: no JSON text
PartialJson == <<[partial |-> TRUE]>>

\* How a call of _save_data ends: both files written, or an exception inside
\* its try (json.dump meets a value it cannot encode, the write fails) while
\* pending_reviews.json is being written; the exception is caught and
\* printed (lines 80-81).
SaveOutcomes == {"saved", "raised"}

\* _save_data
SaveDataOutcome(pending, completed, save_outcome) ==
    IF save_outcome = "saved"
    THEN /\ pending_file' = JsonDump(pending)
         /\ completed_file' = JsonDump(completed)
    ELSE /\ pending_file' = PartialJson
         /\ UNCHANGED completed_file

\* _save_data that writes both files
SaveData(pending, completed) == SaveDataOutcome(pending, completed, "saved")

\* _load_existing_data: the lists a HumanLoopInterface holds after its
\* construction on the data directory; an exception of json.load is caught
\* and printed, the lists not yet assigned stay empty
_load_existing_data ==
    IF pending_file = PartialJson
    THEN [pending_reviews |-> <<>>, completed_reviews |-> <<>>,
          printed |-> "Error loading existing data"]
    ELSE IF completed_file = PartialJson
    THEN [pending_reviews |-> JsonLoad(pending_file), completed_reviews |-> <<>>,
          printed |-> "Error loading existing data"]
    ELSE [pending_reviews |-> JsonLoad(pending_file),
          completed_reviews |-> JsonLoad(completed_file),
          printed |-> "none"]

\* submit_for_review(content, original_content, ai_feedback, review_type, priority)
SubmitForReviewSaving(review_type, priority, save_outcome) ==
    /\ Len(pending_reviews) < MaxRequests
    /\ LET request_id == MakeRequestId(review_type, now, Len(pending_reviews))
           review_request == [request_id |-> request_id,
                              review_type |-> review_type,
                              priority |-> priority,
                              created_at |-> now,
                              status |-> "pending"]
       IN /\ pending_reviews' = Append(pending_reviews, review_request)
          /\ SaveDataOutcome(pending_reviews', completed_reviews, save_outcome)
    /\ UNCHANGED <<completed_reviews, now>>
    /\ UNCHANGED <<storeVars, searchVars, peerVars, waitVars, promptVars, writerVars, pipelineVars>>

\* submit_for_review whose _save_data wrote both files
SubmitForReview(review_type, priority) ==
    SubmitForReviewSaving(review_type, priority, "saved")

\* sort key (-x.priority, x.created_at) compared ascending on the priority
ReviewKeyLessAscending(a, b) ==
    \/ a.priority < b.priority
    \/ a.priority = b.priority /\ a.created_at < b.created_at

\* sort key lambda x: (-x.priority, x.created_at): a sorts strictly before b
ReviewKeyLess(a, b) ==
    \/ (0 - a.priority) < (0 - b.priority)
    \/ a.priority = b.priority /\ a.created_at < b.created_at

\* list.sort(key=...): stable, entries of equal key keep their order
RECURSIVE SortReviews(_)
SortReviews(s) ==
    IF s = <<>> THEN <<>>
    ELSE LET rest == SortReviews(Tail(s))
             x == Head(s)
             before == SelectSeq(rest, LAMBDA y : ReviewKeyLess(y, x))
             after == SelectSeq(rest, LAMBDA y : ~ReviewKeyLess(y, x))
         IN before \o <<x>> \o after

\* get_pending_reviews(review_type=None, priority_min=1)
get_pending_reviews(review_type, priority_min) ==
    LET filtered_reviews ==
            SelectSeq(pending_reviews, LAMBDA review :
                /\ ~(review.status # "pending")
                /\ ~(review_type # NoReviewType /\ review.review_type # review_type)
                /\ ~(review.priority < priority_min))
    IN SortReviews(filtered_reviews)

\* _find_request_by_id: index of the first request with the id, 0 for None
_find_request_by_id(request_id) ==
    IF \E i \in 1..Len(pending_reviews) : pending_reviews[i].request_id = request_id
    THEN CHOOSE i \in 1..Len(pending_reviews) :
            /\ pending_reviews[i].request_id = request_id
            /\ \A j \in 1..(i - 1) : pending_reviews[j].request_id # request_id
    ELSE 0

\* collect_human_feedback(request_id, reviewer_id) with the action and the
\* rating the reviewer ends up entering at the prompts.  A call for an id
\* that _find_request_by_id does not find returns None and changes nothing.
CollectHumanFeedbackSaving(request_id, reviewer_id, action, rating, save_outcome) ==
    LET request == _find_request_by_id(request_id)
        human_feedback == [request_id |-> request_id,
                           reviewer_id |-> reviewer_id,
                           action |-> action,
                           rating |-> rating,
                           timestamp |-> now]
    IN /\ request # 0
       /\ Len(completed_reviews) < MaxFeedback
       /\ pending_reviews' = [pending_reviews EXCEPT ![request].status = "completed"]
       /\ completed_reviews' = Append(completed_reviews, human_feedback)
       /\ SaveDataOutcome(pending_reviews', completed_reviews', save_outcome)
       /\ UNCHANGED now
       /\ UNCHANGED <<storeVars, searchVars, peerVars, waitVars, promptVars, writerVars, pipelineVars>>

\* collect_human_feedback whose _save_data wrote both files
CollectHumanFeedback(request_id, reviewer_id, action, rating) ==
    CollectHumanFeedbackSaving(request_id, reviewer_id, action, rating, "saved")

\* sum of the ratings of a list of feedback
RECURSIVE SumRatings(_)
SumRatings(list) ==
    IF list = <<>> THEN 0 ELSE Head(list).rating + SumRatings(Tail(list))

\* round(n / d * scale): the nearest whole number of 1/scale units (no
\* quotient of the explored ledgers lies halfway between two of them)
RoundScaled(n, d, scale) == (2 * n * scale + d) \div (2 * d)

\* generate_review_report; average_rating is in hundredths (round(..., 2)),
\* approval_rate in tenths of a percent (round(... * 100, 1))
generate_review_report ==
    LET total_reviews == Len(completed_reviews)
        action_counts ==
            [a \in Actions |->
                Len(SelectSeq(completed_reviews, LAMBDA fb : fb.action = a))]
    IN IF total_reviews = 0
       THEN [message |-> "No completed reviews found"]
       ELSE [total_completed_reviews |-> total_reviews,
             average_rating |->
                 RoundScaled(SumRatings(completed_reviews), total_reviews, 100),
             action_breakdown |-> action_counts,
             approval_rate |->
                 RoundScaled(action_counts["approve"], total_reviews, 1000),
             pending_reviews |->
                 Len(SelectSeq(pending_reviews, LAMBDA r : r.status = "pending"))]

\* what a reviewer types at the action prompt
ActionEntries == {"approve", "revise", "reject", "maybe", " Approve"}

\* input(...).strip().lower()
StripLower(entry) == IF entry = " Approve" THEN "approve" ELSE entry

\* what a reviewer types at the rating prompt: a text int() parses, with its
\* value, or a text for which int() raises ValueError
RatingEntries ==
    {[parses |-> TRUE, value |-> v] : v \in {0, 1, 10, 11}}
        \cup {[parses |-> FALSE, value |-> 0]}

\* a rating prompt that accepts every number
RatingInRangeAlways(rating) == TRUE

\* 1 <= rating <= 10 (line 198)
RatingInRange(rating) == 1 <= rating /\ rating <= 10

\* no collect_human_feedback call is at a prompt
NoPrompt == [request_id |-> <<>>, reviewer_id |-> "", action |-> ""]

\* collect_human_feedback, lines 170-179: the request is found and shown,
\* the call goes to the action prompt
CollectFeedbackStart(request_id, reviewer_id) ==
    /\ prompt_pc = "idle"
    /\ _find_request_by_id(request_id) # 0
    /\ Len(completed_reviews) < MaxFeedback
    /\ prompt_pc' = "action"
    /\ prompt_call' = [request_id |-> request_id, reviewer_id |-> reviewer_id,
                       action |-> ""]
    /\ prompt_printed' = "Please provide your feedback:"
    /\ UNCHANGED ledgerVars
    /\ UNCHANGED <<storeVars, searchVars, peerVars, waitVars, writerVars, pipelineVars>>

\* collect_human_feedback, lines 182-186: one entry at the action prompt
CollectFeedbackAction(entry) ==
    /\ prompt_pc = "action"
    /\ LET action == StripLower(entry)
       IN IF action \in {"approve", "revise", "reject"}
          THEN /\ prompt_call' = [prompt_call EXCEPT !.action = action]
               /\ prompt_pc' = "rating"
               /\ UNCHANGED prompt_printed
          ELSE /\ prompt_printed' = "Please enter 'approve', 'revise', or 'reject'"
               /\ UNCHANGED <<prompt_call, prompt_pc>>
    /\ UNCHANGED ledgerVars
    /\ UNCHANGED <<storeVars, searchVars, peerVars, waitVars, writerVars, pipelineVars>>

\* collect_human_feedback, lines 195-235: one entry at the rating prompt;
\* an accepted rating ends the loop, the feedback is stored and the call
\* returns
CollectFeedbackRating(entry) ==
    /\ prompt_pc = "rating"
    /\ IF ~entry.parses
       THEN /\ prompt_printed' = "Please enter a valid number"
            /\ UNCHANGED <<prompt_call, prompt_pc, ledgerVars>>
       ELSE IF ~RatingInRange(entry.value)
       THEN /\ prompt_printed' = "Rating must be between 1 and 10"
            /\ UNCHANGED <<prompt_call, prompt_pc, ledgerVars>>
       ELSE LET request == _find_request_by_id(prompt_call.request_id)
                human_feedback == [request_id |-> prompt_call.request_id,
                                   reviewer_id |-> prompt_call.reviewer_id,
                                   action |-> prompt_call.action,
                                   rating |-> entry.value,
                                   timestamp |-> now]
            IN /\ pending_reviews' =
                     [pending_reviews EXCEPT ![request].status = "completed"]
               /\ completed_reviews' = Append(completed_reviews, human_feedback)
               /\ SaveData(pending_reviews', completed_reviews')
               /\ prompt_printed' = "Feedback submitted successfully!"
               /\ prompt_pc' = "idle"
               /\ prompt_call' = NoPrompt
               /\ UNCHANGED now
    /\ UNCHANGED <<storeVars, searchVars, peerVars, waitVars, writerVars, pipelineVars>>

InitPrompt ==
    /\ prompt_pc = "idle"
    /\ prompt_call = NoPrompt
    /\ prompt_printed = ""

\* time passes
Tick ==
    /\ now < MaxClock
    /\ now' = now + 1
    /\ UNCHANGED <<pending_reviews, completed_reviews, pending_file, completed_file>>
    /\ UNCHANGED <<storeVars, searchVars, peerVars, waitVars, promptVars, writerVars, pipelineVars>>

\* HumanLoopInterface(data_dir): a second interface is constructed on the
\* data directory (the reviewers' command line constructs its own, line 346)
OpenPeer ==
    /\ peer_pending_reviews' = _load_existing_data.pending_reviews
    /\ peer_completed_reviews' = _load_existing_data.completed_reviews
    /\ UNCHANGED ledgerVars
    /\ UNCHANGED <<storeVars, searchVars, waitVars, promptVars, writerVars, pipelineVars>>

\* submit_for_review called on the second interface
PeerSubmitForReview(review_type, priority) ==
    /\ Len(peer_pending_reviews) < MaxRequests
    /\ LET request_id == MakeRequestId(review_type, now, Len(peer_pending_reviews))
           review_request == [request_id |-> request_id,
                              review_type |-> review_type,
                              priority |-> priority,
                              created_at |-> now,
                              status |-> "pending"]
       IN /\ peer_pending_reviews' = Append(peer_pending_reviews, review_request)
          /\ SaveData(peer_pending_reviews', peer_completed_reviews)
    /\ UNCHANGED <<pending_reviews, completed_reviews, now, peer_completed_reviews>>
    /\ UNCHANGED <<storeVars, searchVars, waitVars, promptVars, writerVars, pipelineVars>>

\* a second interface constructed on the still empty data directory
InitPeer ==
    /\ peer_pending_reviews = <<>>
    /\ peer_completed_reviews = <<>>

\* timedelta.seconds: the seconds of a time difference within its day
\* (0..86399); the days of the difference are a field of their own
SecondsPerDay == 86400

TimedeltaSeconds(total_seconds) == total_seconds % SecondsPerDay

\* asyncio.sleep(10) of wait_for_feedback
PollInterval == 10

\* timeout arguments of wait_for_feedback, in seconds
Timeouts == {0, 20, SecondsPerDay}

\* no wait_for_feedback call was made
NoWait == [request_id |-> <<>>, timeout |-> 0, pending_at_call |-> FALSE]

\* wait_for_feedback, lines 329-341: one pass of the loop with the clock
\* difference elapsed; it returns the first feedback of the request, returns
\* None when the timeout has passed, or goes to sleep.  The return value is
\* a list: the feedback, or empty for None.
WaitLoop(request_id, timeout, elapsed) ==
    LET found == SelectSeq(completed_reviews,
                           LAMBDA feedback : feedback.request_id = request_id)
    IN IF found # <<>>
       THEN /\ wait_result' = <<found[1]>>
            /\ wait_pc' = "returned"
       ELSE IF elapsed > timeout
       THEN /\ wait_result' = <<>>
            /\ wait_pc' = "returned"
       ELSE /\ wait_result' = wait_result
            /\ wait_pc' = "sleeping"

\* wait_for_feedback(request_id, timeout): the call takes start_time and
\* runs the loop up to its first suspension.  pending_at_call records the
\* status the request has when the call is made.
WaitForFeedbackCall(request_id, timeout) ==
    /\ wait_pc = "idle"
    /\ wait_call' = [request_id |-> request_id, timeout |-> timeout,
                     pending_at_call |->
                        pending_reviews[_find_request_by_id(request_id)].status
                            = "pending"]
    /\ wait_elapsed' = TimedeltaSeconds(0)
    /\ WaitLoop(request_id, timeout, wait_elapsed')
    /\ UNCHANGED ledgerVars
    /\ UNCHANGED <<storeVars, searchVars, peerVars, promptVars, writerVars, pipelineVars>>

\* wait_for_feedback: asyncio.sleep(10) is over and the loop runs again, up
\* to its next suspension
WaitForFeedbackWake ==
    /\ wait_pc = "sleeping"
    /\ wait_elapsed' = TimedeltaSeconds(wait_elapsed + PollInterval)
    /\ WaitLoop(wait_call.request_id, wait_call.timeout, wait_elapsed')
    /\ UNCHANGED wait_call
    /\ UNCHANGED ledgerVars
    /\ UNCHANGED <<storeVars, searchVars, peerVars, promptVars, writerVars, pipelineVars>>

InitWait ==
    /\ wait_pc = "idle"
    /\ wait_call = NoWait
    /\ wait_elapsed = 0
    /\ wait_result = <<>>

\* HumanLoopInterface.__init__ on an empty data directory
InitLedger ==
    /\ pending_reviews = <<>>
    /\ completed_reviews = <<>>
    /\ pending_file = <<>>
    /\ completed_file = <<>>
    /\ now = 0

RequestIds == {pending_reviews[i].request_id : i \in 1..Len(pending_reviews)}

NextLedger ==
    \/ \E review_type \in ReviewTypes, priority \in Priorities :
          SubmitForReview(review_type, priority)
    \/ \E request_id \in RequestIds, reviewer_id \in Reviewers,
          action \in Actions, rating \in Ratings :
          CollectHumanFeedback(request_id, reviewer_id, action, rating)
    \/ Tick

\* batch_review_interface(review_type=None), the reviewer choosing (r)eview
\* at the first request of the list get_pending_reviews returned
ReviewFirstPending(reviewer_id, action, rating) ==
    LET pending == get_pending_reviews(NoReviewType, 1)
    IN /\ pending # <<>>
       /\ CollectHumanFeedback(pending[1].request_id, reviewer_id, action, rating)

\* the reviewers complete the first request of the list
ReviewFirst ==
    \E reviewer_id \in Reviewers, action \in Actions, rating \in Ratings :
        ReviewFirstPending(reviewer_id, action, rating)

\* The horizon of the explored backlog.  A ledger that keeps receiving
\* requests grows without end; get_pending_reviews passes over the completed
\* requests (lines 124-125) and never reads the feedback, so the backlog is
\* explored up to them: the completed requests and their feedback leave the
\* explored state.
ForgetCompleted ==
    /\ completed_reviews # <<>>
    /\ pending_reviews' = SelectSeq(pending_reviews, LAMBDA r : r.status = "pending")
    /\ completed_reviews' = <<>>
    /\ SaveData(pending_reviews', completed_reviews')
    /\ UNCHANGED now
    /\ UNCHANGED <<storeVars, searchVars, peerVars, waitVars, promptVars, writerVars, pipelineVars>>

\* A backlog that keeps receiving requests while the reviewers work it off
\* from the head of get_pending_reviews.  The ids of one ledger are distinct
\* (len(self.pending_reviews) only grows); behind the horizon a number of
\* the id is used again, never while a request of the state carries the id.
NextBacklog ==
    \/ \E review_type \in ReviewTypes, priority \in Priorities :
          /\ MakeRequestId(review_type, now, Len(pending_reviews)) \notin RequestIds
          /\ SubmitForReview(review_type, priority)
    \/ ReviewFirst
    \/ ForgetCompleted
    \/ Tick

\* Two interfaces on one data directory
NextShared ==
    \/ \E review_type \in ReviewTypes, priority \in Priorities :
          SubmitForReview(review_type, priority)
    \/ \E review_type \in ReviewTypes, priority \in Priorities :
          PeerSubmitForReview(review_type, priority)
    \/ OpenPeer
    \/ Tick

\* One interface whose saves can fail
NextPersist ==
    \/ \E review_type \in ReviewTypes, priority \in Priorities,
          save_outcome \in SaveOutcomes :
          SubmitForReviewSaving(review_type, priority, save_outcome)
    \/ \E request_id \in RequestIds, reviewer_id \in Reviewers,
          action \in Actions, rating \in Ratings, save_outcome \in SaveOutcomes :
          CollectHumanFeedbackSaving(request_id, reviewer_id, action, rating,
                                     save_outcome)
    \/ Tick

\* requests and feedback records explored while a caller waits
MaxWaitRequests == 1
MaxWaitFeedback == 1

\* A caller of wait_for_feedback with the reviewers at work.  The readings
\* of the clock stored in the records (created_at, timestamp) are not read
\* by wait_for_feedback and stay at the reading of the construction; the
\* clock acts through the elapsed time of the call.
NextWait ==
    \/ \E review_type \in ReviewTypes, priority \in Priorities :
          /\ Len(pending_reviews) < MaxWaitRequests
          /\ SubmitForReview(review_type, priority)
    \/ \E request_id \in RequestIds, reviewer_id \in Reviewers,
          action \in Actions, rating \in Ratings :
          /\ Len(completed_reviews) < MaxWaitFeedback
          /\ CollectHumanFeedback(request_id, reviewer_id, action, rating)
    \/ \E request_id \in RequestIds, timeout \in Timeouts :
          WaitForFeedbackCall(request_id, timeout)
    \/ WaitForFeedbackWake

\* A reviewer at the prompts of collect_human_feedback, entry by entry, with
\* requests being submitted.  The readings of the clock stored in the
\* records are not read by the prompts and stay at the reading of the
\* construction.
NextPrompt ==
    \/ \E review_type \in ReviewTypes, priority \in Priorities :
          SubmitForReview(review_type, priority)
    \/ \E request_id \in RequestIds, reviewer_id \in Reviewers :
          CollectFeedbackStart(request_id, reviewer_id)
    \/ \E entry \in ActionEntries : CollectFeedbackAction(entry)
    \/ \E entry \in RatingEntries : CollectFeedbackRating(entry)

(***************************************************************************)
(* ai_agents/writer_agent.py                                               *)
(***************************************************************************)

\* transform_content calls explored
MaxTransforms == 2

WritingTasks == {"task1", "task2"}

\* max_retries of _generate_with_retry (default; transform_content passes
\* none)
max_retries == 3

\* How one generation attempt ends: a response with a text, a response whose
\* text is blank, a response that is None or has an empty text, an
\* exception (of generate_content, or of reading response.text)
ModelOutcomes == {"text", "blank", "empty", "raise"}

\* response.text of an attempt that returned a response with a text
ResponseText(model_outcome) == IF model_outcome = "blank" THEN "  " ELSE "chapter"

\* str.strip() on the texts of the model
Strip(text) == IF text = "  " THEN "" ELSE text

\* result of transform_content, lines 134-160
TransformResult(task_id, text) ==
    [raised |-> FALSE,
     value |-> [task_id |-> task_id, transformed_content |-> Strip(text),
                agent |-> "AIWriterAgent"]]

\* transform_content without its except branch
ErrorResultRaised(task_id, e) ==
    [raised |-> TRUE, value |-> [task_id |-> task_id]]

\* except Exception as e of transform_content, lines 162-170
ErrorResult(task_id, e) ==
    [raised |-> FALSE,
     value |-> [task_id |-> task_id, error |-> e, agent |-> "AIWriterAgent"]]

\* no transform_content has returned
NoResult == [raised |-> FALSE, value |-> [task_id |-> ""]]

\* transform_content(task), lines 114-121: the prompt is built and
\* _generate_with_retry enters its loop
TransformContentCall(task_id) ==
    /\ writer_pc \in {"idle", "returned"}
    /\ Len(writing_history) < MaxTransforms
    /\ writer_pc' = "generating"
    /\ writer_task' = task_id
    /\ writer_attempt' = 0
    /\ writer_outcomes' = <<>>
    /\ UNCHANGED <<writer_result, writing_history>>
    /\ UNCHANGED <<storeVars, searchVars, ledgerVars, peerVars, waitVars, promptVars,
                   pipelineVars>>

\* transform_content returns a result or an error result
TransformContentReturns(result) ==
    /\ writer_pc' = "returned"
    /\ writer_result' = result
    /\ writing_history' = IF "transformed_content" \in DOMAIN result.value
                          THEN Append(writing_history, result.value)
                          ELSE writing_history
    /\ UNCHANGED <<writer_task, writer_attempt>>

\* one attempt of _generate_with_retry (lines 174-197) and, when the loop
\* ends with it, the rest of transform_content (lines 123-170)
GenerateAttempt(model_outcome) ==
    /\ writer_pc = "generating"
    /\ writer_outcomes' = Append(writer_outcomes, model_outcome)
    /\ CASE model_outcome \in {"text", "blank"} ->
             TransformContentReturns(
                 TransformResult(writer_task, ResponseText(model_outcome)))
         [] model_outcome = "empty" ->
             IF writer_attempt + 1 < max_retries
             THEN /\ writer_attempt' = writer_attempt + 1
                  /\ UNCHANGED <<writer_pc, writer_task, writer_result, writing_history>>
             ELSE TransformContentReturns(
                      ErrorResult(writer_task,
                                  "Failed to generate content after retries"))
         [] model_outcome = "raise" ->
             IF writer_attempt < max_retries - 1
             THEN /\ writer_pc' = "backoff"
                  /\ UNCHANGED <<writer_task, writer_attempt, writer_result,
                                 writing_history>>
             ELSE TransformContentReturns(ErrorResult(writer_task, "generation failed"))
    /\ UNCHANGED <<storeVars, searchVars, ledgerVars, peerVars, waitVars, promptVars,
                   pipelineVars>>

\* some attempt ends
GenerateStep == \E model_outcome \in ModelOutcomes : GenerateAttempt(model_outcome)

\* await asyncio.sleep(2 ** attempt) ends (line 193), the loop goes on
BackoffWake ==
    /\ writer_pc = "backoff"
    /\ writer_pc' = "generating"
    /\ writer_attempt' = writer_attempt + 1
    /\ UNCHANGED <<writer_task, writer_outcomes, writer_result, writing_history>>
    /\ UNCHANGED <<storeVars, searchVars, ledgerVars, peerVars, waitVars, promptVars,
                   pipelineVars>>

InitWriter ==
    /\ writer_pc = "idle"
    /\ writer_task = ""
    /\ writer_attempt = 0
    /\ writer_outcomes = <<>>
    /\ writer_result = NoResult
    /\ writing_history = <<>>

NextWriter ==
    \/ \E task_id \in WritingTasks : TransformContentCall(task_id)
    \/ GenerateStep
    \/ BackoffWake

(***************************************************************************)
(* main.py                                                                 *)
(***************************************************************************)

\* source_urls of the project: item i is the i-th URL
Items == 1..MaxItems

\* what a stage collaborator hands back: a result, or a dictionary with 'error'
Outcomes == {"ok", "error"}

\* 'max_iterations' of the reviewer configuration
max_iterations == 3

\* An entry of a stage's result list.  kind names the dictionary the entry
\* is, hence the keys it holds:
\*   "scraped"   scrape result   (url, title, content, version_id)
\*   "written"   writer result   (original_title, transformed_content,
\*                                version_id, original_content)
\*   "reviewed"  review result   (overall_score, feedback, version_id,
\*                                content_item)
\*   "approved"  review item     (content, title, ai_feedback, ai_score,
\*                                version_id)
\*   "edited"    editing result  (edited_content, changes_made, version_id,
\*                                content_item)
\*   "error"     a dictionary with the key 'error'
Entry(item, kind, version_id) ==
    [item |-> item, kind |-> kind, version_id |-> version_id]

\* a stage that passes every entry on to its collaborator
HasErrorIgnored(entry) == FALSE

\* 'error' in content_item
HasError(entry) == entry.kind = "error"

\* VersionManager.create_version(content, metadata): the id it returns
NewVersionId == Len(version_store) + 1

\* VersionManager.create_version(content, metadata): records the content (of
\* the item) with the metadata, here the stage tag and the id the metadata
\* names as the version the content was made from
CreateVersion(item, stage_tag, parent) ==
    version_store' = Append(version_store,
        [version_id |-> NewVersionId, stage |-> stage_tag, parent |-> parent,
         item |-> item])

\* the writing stage's metadata with the key 'original_version_id' left out
WrittenParentMissing(content_item) == NoVersion

\* 'original_version_id': content_item.get('version_id') (line 238)
WrittenParent(content_item) == content_item.version_id

\* 'written_version_id': content_item.get('version_id') (line 272)
ReviewedParent(content_item) == content_item.version_id

\* 'previous_version_id': item['version_id'] (line 316)
ApprovedParent(item) == item.version_id

\* 'human_approved_version_id': content_item.get('version_id') (line 349)
EditedParent(content_item) == content_item.version_id

\* what scrape_chapter does for a URL: it returns a result, returns a
\* dictionary with 'error' (an exception inside its try block, lines 44-92),
\* or raises (the browser launch of lines 37-42 and browser.close() of line
\* 95 are outside the try block)
ScrapeOutcomes == {"ok", "error", "raise"}

\* run_full_workflow, lines 180-183: an exception of a stage ends the run;
\* the project status becomes 'failed' with the error
WorkflowFails(error) ==
    /\ stage' = "failed"
    /\ project_error' = error

\* _run_scraping_stage: one iteration of the loop over source_urls
RunScrapingStage(outcome) ==
    /\ stage = "scraping"
    /\ cursor <= MaxItems
    /\ IF outcome = "raise"
       THEN /\ WorkflowFails("scrape_chapter raised")
            /\ UNCHANGED <<version_store, scraped_content, cursor>>
       ELSE /\ IF outcome = "ok"
               THEN /\ CreateVersion(cursor, "scraped", NoVersion)
                    /\ scraped_content' =
                          Append(scraped_content, Entry(cursor, "scraped", NewVersionId))
               ELSE /\ UNCHANGED version_store
                    /\ scraped_content' =
                          Append(scraped_content, Entry(cursor, "error", NoVersion))
            /\ cursor' = cursor + 1
            /\ UNCHANGED <<stage, project_error>>
    /\ UNCHANGED <<require_approval, written_content, reviewed_content,
                   approved_items, review_decision, human_approved_content,
                   final_content, publication_results, published_content>>
    /\ UNCHANGED <<storeVars, searchVars, ledgerVars, peerVars, waitVars, promptVars, writerVars>>

\* _run_writing_stage: one iteration of the loop over scraped_content
RunWritingStage(outcome) ==
    /\ stage = "writing"
    /\ cursor <= Len(scraped_content)
    /\ LET content_item == scraped_content[cursor]
       IN IF HasError(content_item)
          THEN /\ written_content' = Append(written_content, content_item)
               /\ UNCHANGED version_store
          ELSE IF outcome = "ok"
          THEN /\ CreateVersion(content_item.item, "ai_written",
                                WrittenParent(content_item))
               /\ written_content' = Append(written_content,
                      Entry(content_item.item, "written", NewVersionId))
          ELSE /\ UNCHANGED version_store
               /\ written_content' = Append(written_content,
                      Entry(content_item.item, "error", NoVersion))
    /\ cursor' = cursor + 1
    /\ UNCHANGED <<require_approval, project_error, stage, scraped_content, reviewed_content,
                   approved_items, review_decision, human_approved_content,
                   final_content, publication_results, published_content>>
    /\ UNCHANGED <<storeVars, searchVars, ledgerVars, peerVars, waitVars, promptVars, writerVars>>

\* _run_review_stage: one iteration of the loop over written_content
RunReviewStage(outcome) ==
    /\ stage = "review"
    /\ cursor <= Len(written_content)
    /\ LET content_item == written_content[cursor]
       IN IF HasError(content_item)
          THEN /\ reviewed_content' = Append(reviewed_content, content_item)
               /\ UNCHANGED version_store
          ELSE IF outcome = "ok"
          THEN /\ CreateVersion(content_item.item, "ai_reviewed",
                                ReviewedParent(content_item))
               /\ reviewed_content' = Append(reviewed_content,
                      Entry(content_item.item, "reviewed", NewVersionId))
          ELSE /\ UNCHANGED version_store
               /\ reviewed_content' = Append(reviewed_content,
                      Entry(content_item.item, "error", NoVersion))
    /\ cursor' = cursor + 1
    /\ UNCHANGED <<require_approval, project_error, stage, scraped_content, written_content,
                   approved_items, review_decision, human_approved_content,
                   final_content, publication_results, published_content>>
    /\ UNCHANGED <<storeVars, searchVars, ledgerVars, peerVars, waitVars, promptVars, writerVars>>

\* review_items of _run_human_review_stage (lines 294-303)
ReviewItems ==
    LET eligible == SelectSeq(reviewed_content,
                              LAMBDA item : ~HasError(item) /\ item.kind = "reviewed")
    IN [k \in 1..Len(eligible) |->
            Entry(eligible[k].item, "approved", eligible[k].version_id)]

\* HumanReviewInterface.start_review_session(review_items): the reviewer
\* takes an action on every item; the items approved are returned
StartReviewSession(review_items, decision) ==
    SelectSeq(review_items, LAMBDA item : decision[item.item] = "approve")

\* _run_human_review_stage, lines 287-289: human review disabled
SkipHumanReview ==
    /\ stage = "human_review"
    /\ ~require_approval
    /\ human_approved_content' = reviewed_content
    /\ stage' = "editing"
    /\ cursor' = 1
    /\ UNCHANGED <<require_approval, project_error, scraped_content, written_content, reviewed_content,
                   approved_items, review_decision, final_content,
                   publication_results, version_store, published_content>>
    /\ UNCHANGED <<storeVars, searchVars, ledgerVars, peerVars, waitVars, promptVars, writerVars>>

\* _run_human_review_stage, lines 291-306: the review session
RunHumanReviewSession ==
    /\ stage = "human_review"
    /\ require_approval
    /\ \E decision \in [Items -> Actions \cup {"none"}] :
          /\ \A i \in Items :
                decision[i] # "none" <=>
                    \E k \in 1..Len(ReviewItems) : ReviewItems[k].item = i
          /\ review_decision' = decision
          /\ approved_items' = StartReviewSession(ReviewItems, decision)
    /\ stage' = "human_approval"
    /\ cursor' = 1
    /\ UNCHANGED <<require_approval, project_error, scraped_content, written_content, reviewed_content,
                   human_approved_content, final_content, publication_results,
                   version_store, published_content>>
    /\ UNCHANGED <<storeVars, searchVars, ledgerVars, peerVars, waitVars, promptVars, writerVars>>

\* _run_human_review_stage, lines 309-323: one iteration over approved_items
RunHumanApproval ==
    /\ stage = "human_approval"
    /\ cursor <= Len(approved_items)
    /\ LET item == approved_items[cursor]
       IN /\ CreateVersion(item.item, "human_approved", ApprovedParent(item))
          /\ human_approved_content' = Append(human_approved_content,
                 Entry(item.item, "approved", NewVersionId))
    /\ cursor' = cursor + 1
    /\ UNCHANGED <<require_approval, project_error, stage, scraped_content, written_content,
                   reviewed_content, approved_items, review_decision, final_content,
                   publication_results, published_content>>
    /\ UNCHANGED <<storeVars, searchVars, ledgerVars, peerVars, waitVars, promptVars, writerVars>>

\* content_item['content'] and content_item['title'] (lines 338-339)
HasContentAndTitle(entry) == entry.kind \in {"scraped", "approved"}

\* _run_editing_stage: one iteration of the loop over human_approved_content;
\* a missing key raises KeyError, which run_full_workflow re-raises
RunEditingStage(outcome) ==
    /\ stage = "editing"
    /\ cursor <= Len(human_approved_content)
    /\ LET content_item == human_approved_content[cursor]
       IN IF HasError(content_item)
          THEN /\ final_content' = Append(final_content, content_item)
               /\ cursor' = cursor + 1
               /\ UNCHANGED <<version_store, stage, project_error>>
          ELSE IF ~HasContentAndTitle(content_item)
          THEN /\ WorkflowFails("KeyError")
               /\ UNCHANGED <<final_content, cursor, version_store>>
          ELSE IF outcome = "ok"
          THEN /\ CreateVersion(content_item.item, "final_edited",
                                EditedParent(content_item))
               /\ final_content' = Append(final_content,
                      Entry(content_item.item, "edited", NewVersionId))
               /\ cursor' = cursor + 1
               /\ UNCHANGED <<stage, project_error>>
          ELSE /\ final_content' = Append(final_content,
                      Entry(content_item.item, "error", NoVersion))
               /\ cursor' = cursor + 1
               /\ UNCHANGED <<version_store, stage, project_error>>
    /\ UNCHANGED <<require_approval, scraped_content, written_content, reviewed_content,
                   approved_items, review_decision, human_approved_content,
                   publication_results, published_content>>
    /\ UNCHANGED <<storeVars, searchVars, ledgerVars, peerVars, waitVars, promptVars, writerVars>>

\* ContentStorage.store_content(content, metadata): the id it returns
NewContentId == Len(published_content) + 1

\* _run_publication_stage: one iteration of the loop over final_content
RunPublicationStage ==
    /\ stage = "publication"
    /\ cursor <= Len(final_content)
    /\ LET content_item == final_content[cursor]
       IN IF HasError(content_item)
          THEN /\ publication_results' = Append(publication_results, content_item)
               /\ UNCHANGED published_content
          ELSE /\ published_content' = Append(published_content,
                      [content_id |-> NewContentId, stage |-> "published",
                       version_id |-> content_item.version_id,
                       item |-> content_item.item])
               /\ publication_results' = Append(publication_results, content_item)
    /\ cursor' = cursor + 1
    /\ UNCHANGED <<require_approval, project_error, stage, scraped_content, written_content,
                   reviewed_content, approved_items, review_decision,
                   human_approved_content, final_content, version_store>>
    /\ UNCHANGED <<storeVars, searchVars, ledgerVars, peerVars, waitVars, promptVars, writerVars>>

\* publication_summary of _run_publication_stage (lines 388-395), built from
\* publication_results when the loop has ended
publication_summary ==
    [total_chapters |-> Len(publication_results),
     successful_publications |->
        Len(SelectSeq(publication_results, LAMBDA r : ~HasError(r))),
     failed_publications |->
        Len(SelectSeq(publication_results, LAMBDA r : HasError(r))),
     content_ids |-> [k \in 1..Len(published_content) |->
                        published_content[k].content_id]]

\* the stage that run_full_workflow starts when a stage's loop has ended
FollowingStage(st) ==
    CASE st = "scraping" -> "writing"
      [] st = "writing" -> "review"
      [] st = "review" -> "human_review"
      [] st = "human_approval" -> "editing"
      [] st = "editing" -> "publication"
      [] st = "publication" -> "completed"

\* the list the loop of a stage runs over
StageInput(st) ==
    CASE st = "scraping" -> [i \in Items |-> i]
      [] st = "writing" -> scraped_content
      [] st = "review" -> written_content
      [] st = "human_approval" -> approved_items
      [] st = "editing" -> human_approved_content
      [] st = "publication" -> final_content

\* run_full_workflow: a stage's loop has ended, the stage returns its list
\* and the next stage starts
StageReturns ==
    /\ stage \in {"scraping", "writing", "review", "human_approval", "editing",
                  "publication"}
    /\ cursor > Len(StageInput(stage))
    /\ stage' = FollowingStage(stage)
    /\ cursor' = 1
    /\ UNCHANGED <<require_approval, project_error, scraped_content, written_content, reviewed_content,
                   approved_items, review_decision, human_approved_content,
                   final_content, publication_results, version_store,
                   published_content>>
    /\ UNCHANGED <<storeVars, searchVars, ledgerVars, peerVars, waitVars, promptVars, writerVars>>

\* BookPublicationWorkflow.__init__ and create_project: the configuration is
\* loaded, the project is at its first stage
InitPipeline ==
    /\ require_approval \in BOOLEAN
    /\ stage = "scraping"
    /\ project_error = "none"
    /\ cursor = 1
    /\ scraped_content = <<>>
    /\ written_content = <<>>
    /\ reviewed_content = <<>>
    /\ approved_items = <<>>
    /\ review_decision = [i \in Items |-> "none"]
    /\ human_approved_content = <<>>
    /\ final_content = <<>>
    /\ publication_results = <<>>
    /\ version_store = <<>>
    /\ published_content = <<>>

NextPipeline ==
    \/ \E outcome \in ScrapeOutcomes : RunScrapingStage(outcome)
    \/ \E outcome \in Outcomes : RunWritingStage(outcome)
    \/ \E outcome \in Outcomes : RunReviewStage(outcome)
    \/ SkipHumanReview
    \/ RunHumanReviewSession
    \/ RunHumanApproval
    \/ \E outcome \in Outcomes : RunEditingStage(outcome)
    \/ RunPublicationStage
    \/ StageReturns

Init ==
    /\ InitStore /\ InitSearch /\ InitLedger /\ InitPeer /\ InitWait /\ InitPrompt
    /\ InitWriter /\ InitPipeline

\* the components of a workflow under the default configuration
\* ('require_approval': True)
InitDefault == Init /\ require_approval

SpecStore == InitDefault /\ [][NextStore]_vars

SpecSearch == InitDefault /\ [][NextSearch]_vars

SpecLedger == InitDefault /\ [][NextLedger]_vars

\* the sleep of wait_for_feedback ends and the loop goes on
SpecShared == InitDefault /\ [][NextShared]_vars

SpecPersist == InitDefault /\ [][NextPersist]_vars

\* the reviewers keep completing the first request of get_pending_reviews
SpecBacklog ==
    /\ InitDefault
    /\ [][NextBacklog]_vars
    /\ WF_vars(ReviewFirst)
    /\ WF_vars(ForgetCompleted)

SpecWait == InitDefault /\ [][NextWait]_vars /\ WF_vars(WaitForFeedbackWake)

SpecPrompt == InitDefault /\ [][NextPrompt]_vars

\* an awaited generation attempt returns or raises, an awaited sleep ends
SpecWriter ==
    /\ InitDefault
    /\ [][NextWriter]_vars
    /\ WF_vars(GenerateStep)
    /\ WF_vars(BackoffWake)

SpecPipeline == Init /\ [][NextPipeline]_vars

(***************************************************************************)
(* Claims about the writer (SpecWriter)                                    *)
(***************************************************************************)

\* the generation attempts of the call all failed
EveryAttemptFailed ==
    \A k \in 1..Len(writer_outcomes) : writer_outcomes[k] \in {"empty", "raise"}

PreviousStage(tag) ==
    CASE tag = "ai_written" -> "scraped"
      [] tag = "ai_reviewed" -> "ai_written"
      [] tag = "human_approved" -> "ai_reviewed"
      [] tag = "final_edited" -> "human_approved"
      [] tag = "published" -> "final_edited"

\* C8: for each item the versions are created in the order scraped,
\* ai_written, ai_reviewed, human_approved, final_edited, published: every
\* version but the scraped one names as its parent a version created before
\* it, for the same item, by the preceding stage; a scraped version has no
\* parent.
C8_StageOrderAndParents ==
    /\ \A k \in 1..Len(version_store) :
          LET v == version_store[k]
          IN IF v.stage = "scraped"
             THEN v.parent = NoVersion
             ELSE \E j \in 1..(k - 1) :
                     /\ version_store[j].version_id = v.parent
                     /\ version_store[j].item = v.item
                     /\ version_store[j].stage = PreviousStage(v.stage)
    /\ \A k \in 1..Len(published_content) :
          LET p == published_content[k]
          IN \E j \in 1..Len(version_store) :
                /\ version_store[j].version_id = p.version_id
                /\ version_store[j].item = p.item
                /\ version_store[j].stage = PreviousStage(p.stage)

\* C8 witness: the run is complete and an item went through every stage
C8_Witness ==
    /\ stage = "completed"
    /\ \E i \in Items :
          /\ \A tag \in {"scraped", "ai_written", "ai_reviewed", "human_approved",
                         "final_edited"} :
                \E k \in 1..Len(version_store) :
                    version_store[k].item = i /\ version_store[k].stage = tag
          /\ \E k \in 1..Len(published_content) : published_content[k].item = i

\* the item has a version of the stage
HasVersion(i, tag) ==
    \E k \in 1..Len(version_store) :
        version_store[k].item = i /\ version_store[k].stage = tag

\* C9: a human_approved version exists only for an item whose review ended
\* with approve; an item whose review ended with reject gets no
\* human_approved, final_edited or published version and is marked failed:
\* the results of the finished run hold an entry with an error for it.
C9_ApprovalGate ==
    /\ \A i \in Items : HasVersion(i, "human_approved") => review_decision[i] = "approve"
    /\ \A i \in Items :
          review_decision[i] = "reject" =>
             /\ ~HasVersion(i, "human_approved")
             /\ ~HasVersion(i, "final_edited")
             /\ ~\E k \in 1..Len(published_content) : published_content[k].item = i
             /\ stage = "completed" =>
                   \E k \in 1..Len(publication_results) :
                       /\ publication_results[k].item = i
                       /\ HasError(publication_results[k])

\* C10: when the run is over, an item whose review ended with revise has had
\* its content regenerated and recorded as a new version after the reviewed
\* one, at most max_iterations times.
C10_ReviseRegenerates ==
    \A i \in Items :
        (review_decision[i] = "revise" /\ stage = "completed") =>
            LET reviewed == CHOOSE k \in 1..Len(version_store) :
                                /\ version_store[k].item = i
                                /\ version_store[k].stage = "ai_reviewed"
                regenerated == {k \in 1..Len(version_store) :
                                    version_store[k].item = i /\ k > reviewed}
            IN /\ regenerated # {}
               /\ Cardinality(regenerated) <= max_iterations

\* a stage's result list holds a dictionary with 'error' for the item
FailedIn(list, i) ==
    \E k \in 1..Len(list) : list[k].item = i /\ list[k].kind = "error"

\* a stage collaborator has returned an error for the item
CollaboratorFailed(i) ==
    \/ FailedIn(scraped_content, i)
    \/ FailedIn(written_content, i)
    \/ FailedIn(reviewed_content, i)
    \/ FailedIn(final_content, i)

\* the versions stored for the item
VersionsOfItem(i) ==
    {version_store[k] : k \in {j \in 1..Len(version_store) : version_store[j].item = i}}

\* the item has been published
Published(i) ==
    \E k \in 1..Len(published_content) : published_content[k].item = i

\* C11: the step in which a collaborator fails for an item, and every step
\* after it, leaves the versions stored for that item as they were; a step
\* in which a collaborator raises creates no version at all.
C11_FailureCreatesNoVersion ==
    [][/\ \A i \in Items :
             CollaboratorFailed(i)' => VersionsOfItem(i)' = VersionsOfItem(i)
       /\ stage' = "failed" => version_store' = version_store]_vars

\* C11 witness: the run is complete; the writer failed for an item, which
\* holds its scraped version and no other, while another item was published.
C11_Witness ==
    /\ stage = "completed"
    /\ \E i, j \in Items :
          /\ FailedIn(written_content, i)
          /\ ~FailedIn(scraped_content, i)
          /\ Cardinality(VersionsOfItem(i)) = 1
          /\ \A v \in VersionsOfItem(i) : v.stage = "scraped"
          /\ Published(j)

\* C12: the failure of a collaborator for one item never ends the run, be it
\* an error result or an exception; in a finished run every item whose own
\* collaborators did not fail and whose review ended with approve is
\* published.
C12_FailureNeverAbortsBatch ==
    /\ project_error # "scrape_chapter raised"
    /\ stage = "completed" =>
          \A i \in Items :
              (~CollaboratorFailed(i) /\ review_decision[i] = "approve") => Published(i)

\* C13: in the summary of a finished run total_chapters is the number of
\* source URLs, successful_publications + failed_publications is
\* total_chapters, and every item a collaborator failed for is in the results
\* with its error.
C13_SummaryCountsEveryItem ==
    stage = "completed" =>
        /\ publication_summary.total_chapters = MaxItems
        /\ publication_summary.successful_publications
              + publication_summary.failed_publications
              = publication_summary.total_chapters
        /\ \A i \in Items :
              CollaboratorFailed(i) => FailedIn(publication_results, i)

\* C29: with human review disabled the human-review stage hands on only
\* items the editing stage can process (an item that failed, or one with
\* content and title), and the run does not fail on an item that passed the
\* AI review.
C29_DisabledReviewHandsOn ==
    ~require_approval =>
        /\ \A k \in 1..Len(human_approved_content) :
              \/ HasError(human_approved_content[k])
              \/ HasContentAndTitle(human_approved_content[k])
        /\ project_error # "KeyError"

(***************************************************************************)
(* Claims about search_similar_content (SpecSearch)                        *)
(***************************************************************************)

\* C21: a search of an empty index returns the empty list and raises no
\* error, whatever the query text and n_results are.
C21_SearchOfEmptyIndex ==
    (search_call.called /\ search_call.count = 0) =>
        /\ ~search_result.raised
        /\ search_result.value = <<>>

\* C21 witness: an index that held a document was emptied and then searched
\* with the empty query text, and the backend raised.
C21_Witness ==
    /\ search_call.called
    /\ search_call.count = 0
    /\ search_call.query = ""
    /\ next_uuid > 0
    /\ search_result.printed = "Search error"

\* C22: every similarity score of a search lies between 0 and 1, and the
\* results are ordered by score, highest first.
C22_ScoresClampedAndOrdered ==
    LET value == search_result.value
    IN /\ \A i \in 1..Len(value) :
             0 <= value[i].similarity_score /\ value[i].similarity_score <= 1
       /\ \A i, j \in 1..Len(value) :
             i < j => value[i].similarity_score >= value[j].similarity_score

(***************************************************************************)
(* Claims about the review ledger (SpecLedger)                             *)
(***************************************************************************)

\* feedback records stored for a request id, in order
FeedbackFor(request_id) ==
    SelectSeq(completed_reviews, LAMBDA fb : fb.request_id = request_id)

\* C5: a completed request is never reopened, and a feedback submission for
\* a request that is already completed adds no feedback and leaves the
\* feedback stored for it unchanged.
C5_CompletedRequestIsClosed ==
    [][\A i \in 1..Len(pending_reviews) :
          pending_reviews[i].status = "completed" =>
              /\ pending_reviews'[i].status = "completed"
              /\ FeedbackFor(pending_reviews[i].request_id)' =
                    FeedbackFor(pending_reviews[i].request_id)]_vars

\* C6: a request is completed exactly when one feedback record carries its
\* request_id; a pending request has none, and no request_id has two.
C6_CompletedIffOneFeedback ==
    \A i \in 1..Len(pending_reviews) :
        LET n == Len(FeedbackFor(pending_reviews[i].request_id))
        IN /\ pending_reviews[i].status = "completed" <=> n = 1
           /\ pending_reviews[i].status = "pending" => n = 0
           /\ n <= 1

\* C23: in every state of the ledger, also before any review is completed,
\* generate_review_report gives the number of completed feedback per action,
\* the approval rate approve_count / completed_count, the average rating and
\* the number of requests whose status is pending.
C23_ReportInEveryState ==
    LET report == generate_review_report
        completed_count == Len(completed_reviews)
        count(a) == Cardinality({k \in 1..completed_count :
                                    completed_reviews[k].action = a})
    IN /\ {"action_breakdown", "approval_rate", "average_rating",
           "pending_reviews"} \subseteq DOMAIN report
       /\ \A a \in Actions : report.action_breakdown[a] = count(a)
       /\ report.pending_reviews =
             Cardinality({i \in 1..Len(pending_reviews) :
                             pending_reviews[i].status = "pending"})
       /\ completed_count > 0 =>
             /\ report.approval_rate =
                   RoundScaled(count("approve"), completed_count, 1000)
             /\ report.average_rating =
                   RoundScaled(SumRatings(completed_reviews), completed_count, 100)

\* position of a request in pending_reviews, the order of submission
SubmissionIndex(request) ==
    CHOOSE i \in 1..Len(pending_reviews) : pending_reviews[i] = request

\* C7: get_pending_reviews returns exactly the pending requests that match
\* the review-type and minimum-priority filters, by priority descending and,
\* among equal priorities, in submission order; never a completed request.
C7_PendingFilteredAndOrdered ==
    \A review_type \in ReviewTypes \cup {NoReviewType}, priority_min \in Priorities \cup {3} :
        LET r == get_pending_reviews(review_type, priority_min)
            want == {i \in 1..Len(pending_reviews) :
                        /\ pending_reviews[i].status = "pending"
                        /\ review_type # NoReviewType =>
                              pending_reviews[i].review_type = review_type
                        /\ pending_reviews[i].priority >= priority_min}
        IN /\ Len(r) = Cardinality(want)
           /\ {r[k] : k \in 1..Len(r)} = {pending_reviews[i] : i \in want}
           /\ \A k \in 1..Len(r) : r[k].status # "completed"
           /\ \A k1, k2 \in 1..Len(r) :
                 k1 < k2 =>
                    \/ r[k1].priority > r[k2].priority
                    \/ /\ r[k1].priority = r[k2].priority
                       /\ SubmissionIndex(r[k1]) < SubmissionIndex(r[k2])

\* C7 witness: a lower priority was submitted before a higher one, both are
\* pending, and the list returns the later (higher priority) request first.
C7_Witness ==
    /\ Len(pending_reviews) >= 2
    /\ pending_reviews[1].priority < pending_reviews[2].priority
    /\ pending_reviews[1].created_at < pending_reviews[2].created_at
    /\ get_pending_reviews(NoReviewType, 1) = <<pending_reviews[2], pending_reviews[1]>>

(***************************************************************************)
(* Claims about interfaces on one data directory (SpecShared)              *)
(***************************************************************************)

PeerRequestIds ==
    {peer_pending_reviews[i].request_id : i \in 1..Len(peer_pending_reviews)}

\* C25: every submit_for_review returns a request id that no request
\* submitted before carries, whether that request was submitted in the same
\* second, is completed, or was submitted through another interface on the
\* same data directory.
C25_RequestIdsUnique ==
    [][/\ (\E review_type \in ReviewTypes, priority \in Priorities :
              SubmitForReview(review_type, priority))
          => pending_reviews'[Len(pending_reviews')].request_id
                \notin RequestIds \cup PeerRequestIds
       /\ (\E review_type \in ReviewTypes, priority \in Priorities :
              PeerSubmitForReview(review_type, priority))
          => peer_pending_reviews'[Len(peer_pending_reviews')].request_id
                \notin RequestIds \cup PeerRequestIds]_vars

(***************************************************************************)
(* Claims about the files of the ledger (SpecPersist)                      *)
(***************************************************************************)

\* C30: after every submit_for_review and every feedback submission the
\* files hold the ledger of the memory: an interface constructed on the data
\* directory loads the same requests with the same statuses and the same
\* feedback, in the same order.
C30_PersistedEqualsMemory ==
    [][(pending_reviews' # pending_reviews \/ completed_reviews' # completed_reviews)
          => /\ _load_existing_data.pending_reviews' = pending_reviews'
             /\ _load_existing_data.completed_reviews' = completed_reviews']_vars

(***************************************************************************)
(* Claims about the backlog of pending requests (SpecBacklog)              *)
(***************************************************************************)

\* the request ids submit_for_review can build in the explored backlog
BacklogIds ==
    {MakeRequestId(review_type, t, n) :
        review_type \in ReviewTypes, t \in 0..MaxClock, n \in 0..MaxRequests}

\* a request with this id is waiting for its review
IsPending(request_id) ==
    \E i \in 1..Len(pending_reviews) :
        /\ pending_reviews[i].request_id = request_id
        /\ pending_reviews[i].status = "pending"

\* C24: no pending request starves: while the reviewers keep completing the
\* first request of get_pending_reviews, every pending request is eventually
\* completed, also while new requests keep being submitted.
C24_NoPendingRequestStarves ==
    \A request_id \in BacklogIds : IsPending(request_id) ~> ~IsPending(request_id)

(***************************************************************************)
(* Claims about wait_for_feedback (SpecWait)                               *)
(***************************************************************************)

\* C14: a wait_for_feedback call with timeout 0 on a request that is pending
\* when the call is made does not go to sleep, and what it returns is the
\* timeout signal (None), never a feedback.
C14_ZeroTimeoutReturnsAtOnce ==
    (wait_call.timeout = 0 /\ wait_call.pending_at_call) =>
        /\ wait_pc # "sleeping"
        /\ wait_pc = "returned" => wait_result = <<>>

\* C15: a wait_for_feedback call, whatever its timeout, on a request that
\* never receives feedback eventually returns (the timeout signal).
C15_WaitEventuallyReturns ==
    (wait_pc = "sleeping")
        ~> (wait_pc = "returned" \/ FeedbackFor(wait_call.request_id) # <<>>)

(***************************************************************************)
(* Claims about the prompts of collect_human_feedback (SpecPrompt)         *)
(***************************************************************************)

\* the messages collect_human_feedback prints when it refuses an entry
ValidationErrors ==
    {"Please enter 'approve', 'revise', or 'reject'",
     "Please enter a valid number",
     "Rating must be between 1 and 10"}

\* the step refuses an entry: a validation message is printed, no feedback is
\* stored and every request stays as it is
EntryRefused ==
    /\ prompt_printed' \in ValidationErrors
    /\ completed_reviews' = completed_reviews
    /\ pending_reviews' = pending_reviews

\* C20: an entry that is no rating in 1..10 or none of the actions approve,
\* revise, reject is refused with a validation message: the step stores no
\* feedback and the request stays pending; every stored feedback has a
\* rating in 1..10 and an action among approve, revise, reject.
C20_InvalidFeedbackRefused ==
    [][/\ \A entry \in ActionEntries :
             (/\ CollectFeedbackAction(entry)
              /\ StripLower(entry) \notin {"approve", "revise", "reject"})
                 => EntryRefused
       /\ \A entry \in RatingEntries :
             (/\ CollectFeedbackRating(entry)
              /\ ~(entry.parses /\ entry.value \in 1..10))
                 => EntryRefused
       /\ \A k \in 1..Len(completed_reviews') :
             /\ completed_reviews'[k].rating \in 1..10
             /\ completed_reviews'[k].action \in {"approve", "revise", "reject"}]_vars

\* C20 witness: an out-of-range rating has been refused for a request, which
\* is pending and has no feedback, while another request got its feedback.
C20_Witness ==
    /\ prompt_pc = "rating"
    /\ prompt_printed = "Rating must be between 1 and 10"
    /\ pending_reviews[_find_request_by_id(prompt_call.request_id)].status = "pending"
    /\ FeedbackFor(prompt_call.request_id) = <<>>
    /\ Len(completed_reviews) = 1

(***************************************************************************)
(* Claims about the content store (SpecStore)                              *)
(***************************************************************************)

\* snapshots stored under a chapter, in insertion order
DocsOf(chapter_id) == CollectionGet(content_collection, [chapter_id |-> chapter_id])

StoredVersions(chapter_id) ==
    {DocsOf(chapter_id)[i].metadata.version : i \in 1..Len(DocsOf(chapter_id))}

\* every store_content so far has left its snapshot in place (nothing deleted)
NoDeleteYet == Len(content_collection) = next_uuid

\* C1: after any sequence of store_content calls (no delete), the versions
\* stored for each entity are exactly 1..n, n the number of its snapshots:
\* no gap, and no two snapshots with the same (entity_id, version).
C1_VersionsAreOneToN ==
    NoDeleteYet =>
        \A c \in Chapters : StoredVersions(c) = 1..Len(DocsOf(c))

\* C2: two workers that are inside store_content for the same entity_id at
\* the same time hold different version numbers for their snapshots.
C2_ConcurrentStoresGetDistinctVersions ==
    \A w1, w2 \in Workers :
        (/\ w1 # w2
         /\ wpc[w1] = "tracking" /\ wpc[w2] = "tracking"
         /\ wcall[w1].chapter_id = wcall[w2].chapter_id)
        => wcall[w1].version # wcall[w2].version

Max(S) == CHOOSE x \in S : \A y \in S : y <= x

\* C3: for every entity_id with at least one stored snapshot, retrieve_content
\* without a version finds a snapshot stored for that entity, and its version
\* is the maximum of the versions stored for the entity.
C3_LatestIsMaxVersion ==
    \A c \in Chapters :
        DocsOf(c) # <<>> =>
            \A where_backend \in WhereBackends :
            LET r == retrieve_content(c, NoVersion, where_backend)
            IN /\ r.found
               /\ r.metadata.version = Max(StoredVersions(c))
               /\ \E i \in 1..Len(DocsOf(c)) :
                     /\ DocsOf(c)[i].document = r.content
                     /\ DocsOf(c)[i].metadata = r.metadata

\* C3 witness: an entity holds a lower version stored before a higher one,
\* and the latest retrieval returns the snapshot of the higher version.
C3_Witness ==
    \E c \in Chapters :
        /\ Len(DocsOf(c)) >= 2
        /\ DocsOf(c)[1].metadata.version < DocsOf(c)[2].metadata.version
        /\ \A where_backend \in WhereBackends :
              retrieve_content(c, NoVersion, where_backend).metadata
                 = DocsOf(c)[2].metadata

\* position of a document id in the content collection, 0 when absent
IndexOfDoc(doc_id) ==
    IF \E i \in 1..Len(content_collection) : content_collection[i].id = doc_id
    THEN CHOOSE i \in 1..Len(content_collection) : content_collection[i].id = doc_id
    ELSE 0

\* the store_content call that returned to worker w stored content whose hash
\* equals that of an earlier snapshot still stored under the same entity_id
StoredDuplicate(w) ==
    LET i == IndexOfDoc(store_result[w])
    IN /\ i > 0
       /\ \E j \in 1..(i - 1) :
             /\ content_collection[j].metadata.chapter_id =
                   content_collection[i].metadata.chapter_id
             /\ content_collection[j].metadata.content_hash =
                   content_collection[i].metadata.content_hash

\* what a store_content call reports besides the document id: the only signal
\* it can emit is the message of line 99
DuplicateFlagged(w) == store_log[w] # "none"

\* C4: a store of content byte-identical to content already stored under the
\* same entity_id is flagged as a duplicate in the result, and its snapshot
\* has a version of its own under which it is retrieved.
C4_DuplicateFlaggedAndRetrievable ==
    \A w \in Workers :
        StoredDuplicate(w) =>
            LET d == content_collection[IndexOfDoc(store_result[w])]
                r == retrieve_content(d.metadata.chapter_id, d.metadata.version,
                                      "implicit_and")
            IN /\ DuplicateFlagged(w)
               /\ r.found
               /\ r.content = d.document /\ r.metadata = d.metadata
               /\ \A j \in 1..Len(content_collection) :
                     (/\ content_collection[j].id # d.id
                      /\ content_collection[j].metadata.chapter_id = d.metadata.chapter_id)
                     => content_collection[j].metadata.version # d.metadata.version

\* snapshots stored with the entity_id and the version, in insertion order
SnapshotsWith(chapter_id, version) ==
    SelectSeq(content_collection, LAMBDA d :
        d.metadata.chapter_id = chapter_id /\ d.metadata.version = version)

\* C16: retrieve_content(entity_id, v) returns a snapshot stored with exactly
\* that entity_id and version when one exists, and the not-found outcome
\* otherwise.
C16_RetrieveByVersion ==
    \A c \in Chapters, v \in Versions, where_backend \in WhereBackends :
        LET r == retrieve_content(c, v, where_backend)
            stored == SnapshotsWith(c, v)
        IN IF stored # <<>>
           THEN /\ r.found
                /\ \E i \in 1..Len(stored) :
                      stored[i].document = r.content /\ stored[i].metadata = r.metadata
           ELSE ~r.found

\* C17: get_chapter_versions(entity_id) holds one entry for every snapshot
\* stored under the entity_id and no other entry, in ascending order of
\* version.
C17_VersionsListedAscending ==
    \A c \in Chapters :
        LET r == get_chapter_versions(c)
            stored == SelectSeq(content_collection,
                                LAMBDA d : d.metadata.chapter_id = c)
            entryOf(d) == [version |-> d.metadata.version,
                           content_preview |-> d.document]
        IN /\ Len(r) = Len(stored)
           /\ \A k \in 1..Len(r) :
                 Cardinality({j \in 1..Len(r) : r[j] = r[k]}) =
                 Cardinality({i \in 1..Len(stored) : entryOf(stored[i]) = r[k]})
           /\ \A k1, k2 \in 1..Len(r) : k1 < k2 => r[k1].version <= r[k2].version

\* C17 witness: an entity holds a higher version stored before a lower one
\* and the list gives the lower version first.
C17_Witness ==
    \E c \in Chapters :
        /\ Len(DocsOf(c)) = 2
        /\ DocsOf(c)[1].metadata.version > DocsOf(c)[2].metadata.version
        /\ get_chapter_versions(c)[1].version = DocsOf(c)[2].metadata.version
        /\ get_chapter_versions(c)[2].version = DocsOf(c)[1].metadata.version

\* the snapshot is one that delete(entity_id, version) is to remove; without
\* a version, every snapshot of the entity
ToDelete(d, chapter_id, version) ==
    /\ d.metadata.chapter_id = chapter_id
    /\ version # NoVersion => d.metadata.version = version

\* C18: a delete_content(entity_id, version) call removes exactly the
\* snapshots of the entity with the version (all of the entity without a
\* version), leaves every other snapshot as it is, and returns true exactly
\* when it removed a snapshot.
C18_DeleteRemovesExactly ==
    [][\A c \in Chapters, v \in Versions \cup {NoVersion},
          where_backend \in WhereBackends :
          DeleteContent(c, v, where_backend) =>
             /\ content_collection' =
                    SelectSeq(content_collection, LAMBDA d : ~ToDelete(d, c, v))
             /\ delete_result' =
                    (\E i \in 1..Len(content_collection) :
                        ToDelete(content_collection[i], c, v))]_vars

\* the step is a delete_content call that returned true
DeleteRemoved ==
    /\ delete_result'
    /\ \E c \in Chapters, v \in Versions \cup {NoVersion},
          where_backend \in WhereBackends : DeleteContent(c, v, where_backend)

\* C19: every stored snapshot is kept as it is, content and metadata, by
\* every step but a delete_content call that returns true; a store_content
\* call appends one snapshot, also under an (entity_id, version) in use, and
\* changes no other; no two snapshots share a document id.
C19_SnapshotsImmutable ==
    [][/\ \A i \in 1..Len(content_collection) :
             \/ \E j \in 1..Len(content_collection') :
                   content_collection'[j] = content_collection[i]
             \/ DeleteRemoved
       /\ next_uuid' # next_uuid =>
             /\ Len(content_collection') = Len(content_collection) + 1
             /\ SubSeq(content_collection', 1, Len(content_collection))
                   = content_collection
       /\ \A i, j \in 1..Len(content_collection') :
             content_collection'[i].id = content_collection'[j].id => i = j]_vars

\* C19 witness: a second store under the (entity_id, version) of a stored
\* snapshot, with other content, has returned; both snapshots are stored.
C19_Witness ==
    \E i, j \in 1..Len(content_collection) :
        /\ i < j
        /\ content_collection[i].metadata.chapter_id =
              content_collection[j].metadata.chapter_id
        /\ content_collection[i].metadata.version =
              content_collection[j].metadata.version
        /\ content_collection[i].document # content_collection[j].document
        /\ \E w \in Workers : store_result[w] = content_collection[j].id

\* the tracking records of versions_collection for (chapter_id, version)
TrackingOf(chapter_id, version) ==
    SelectSeq(versions_collection,
              LAMBDA t : t.data.chapter_id = chapter_id /\ t.data.version = version)

\* C27: the version tracking and the content collection agree: a tracking
\* record for (chapter_id, version) exists exactly when a snapshot with that
\* chapter_id and version is stored, and its doc_id and content_hash are
\* those of such a snapshot.  Stated for the states in which no
\* store_content is between its two writes, where the claim has it for
\* these states as well.
C27_TrackingAgreesWithContent ==
    (\A w \in Workers : wpc[w] = "idle") =>
        \A c \in Chapters, v \in Versions :
            LET tracked == TrackingOf(c, v)
                stored == SnapshotsWith(c, v)
            IN /\ tracked # <<>> <=> stored # <<>>
               /\ \A k \in 1..Len(tracked) :
                     \E i \in 1..Len(stored) :
                         /\ stored[i].id = tracked[k].data.doc_id
                         /\ stored[i].metadata.content_hash =
                               tracked[k].data.content_hash

\* C28: whatever metadata the caller passed, a stored snapshot carries the
\* chapter_id and the version of its store_content call (they are part of
\* its document id) and the digest of its content, and retrieve_content
\* finds a snapshot under that chapter_id and version.
C28_StoredUnderCallArguments ==
    \A i \in 1..Len(content_collection) :
        LET d == content_collection[i]
        IN /\ d.metadata.chapter_id = d.id[1]
           /\ d.metadata.version = d.id[2]
           /\ d.metadata.content_hash = _generate_content_hash(d.document)
           /\ retrieve_content(d.id[1], d.id[2], "implicit_and").found

====
